---- MODULE Spec2Model ----
(***************************************************************************)
(* Bay Elevation Generator (src/main.py): a Streamlit form that collects   *)
(* bay types (name, shelves A, B, C, ..., per-shelf bin configuration),    *)
(* previews each bay with draw_bay_preview and, on the press of a button,  *)
(* renders one slide per bay with generate_elevation_powerpoint.           *)
(*                                                                         *)
(* Lengths on the slide are measured in hundredths of an inch (9144 EMU):  *)
(* every Inches(...) literal of the source is a whole number of them.      *)
(* Python floats are modelled as exact rationals [n, d] in lowest terms.   *)
(* Centimetre inputs are whole numbers of centimetres.                     *)
(***************************************************************************)
EXTENDS Integers, Sequences, FiniteSets, TLC

VARIABLES
    num_bay_types,   \* st.number_input "num_bay_types"
    bay_type_name,   \* st.session_state["bay_type_name_<i>"], i -> name (a sequence of characters)
    shelf_count,     \* widget "elevation_shelf_count_<i>" of every rendered bay
    shelf_config,    \* widgets num_bins/bin_h/bin_w/bin_d of every rendered shelf
    bay_types_data,  \* the list built by the form loop of the last script run
    previews,        \* what draw_bay_preview drew for each bay in the last script run
    message,         \* what the button block showed in the last script run
    ppt,             \* the outcome of the last call of generate_elevation_powerpoint
    download,        \* whether a download button is offered
    reruns           \* number of script reruns since the page was opened

vars == <<num_bay_types, bay_type_name, shelf_count, shelf_config,
          bay_types_data, previews, message, ppt, download, reruns>>

(***************************************************************************)
(* Bounds of the model.                                                    *)
(***************************************************************************)
MaxBays == 2        \* stands for max_value=50 of num_bay_types
MaxShelves == 3     \* stands for max_value=26 of the shelf count
MaxReruns == 3      \* interactions explored after the first script run
GenShelves == 2     \* shelves per bay handed directly to the generator
TallShelves == 9    \* shelves of the tall bays with one repeated shelf spec

(***************************************************************************)
(* Program constants.                                                      *)
(***************************************************************************)
MinBayTypes == 1
DefaultBayTypes == 1
MinShelfCount == 1
DefaultShelfCount == 3
MinNumBins == 1
DefaultNumBins == 5
MinDimension == 1
DefaultDimension == 10

drawing_area_width == 800    \* Inches(8)
drawing_area_height == 600   \* Inches(6)
start_y == 680               \* Inches(6.8)
SlideCentreX == 667          \* Inches(6.67)
ShelfGap == 8                \* Inches(0.08)
ShadowOffset == 5            \* Inches(0.05)
LabelOffset == 60            \* Inches(0.6)
LabelWidth == 50             \* Inches(0.5)
DimOffset == 50              \* Inches(0.5)
DimBoxRise == 25             \* Inches(0.25)
DimBoxWidth == 150           \* Inches(1.5)
DimBoxHeight == 50           \* Inches(0.5)
PaddingNum == 9              \* 0.9 = 9 / 10
PaddingDen == 10

(***************************************************************************)
(* Exact arithmetic standing for Python's float arithmetic.                *)
(***************************************************************************)
Abs(x) == IF x < 0 THEN -x ELSE x

RECURSIVE GCD(_, _)
GCD(a, b) == IF b = 0 THEN a ELSE GCD(b, a % b)

Rat(n, d) == LET g == GCD(Abs(n), d) IN [n |-> n \div g, d |-> d \div g]

R(i) == [n |-> i, d |-> 1]

RAdd(a, b) == Rat(a.n * b.d + b.n * a.d, a.d * b.d)

RSub(a, b) == Rat(a.n * b.d - b.n * a.d, a.d * b.d)

RMul(a, b) == Rat(a.n * b.n, a.d * b.d)

RDiv(a, b) == IF b.n > 0 THEN Rat(a.n * b.d, a.d * b.n) ELSE Rat(-(a.n * b.d), a.d * (-b.n))

RLeq(a, b) == a.n * b.d <= b.n * a.d

RMin(a, b) == IF RLeq(a, b) THEN a ELSE b

(***************************************************************************)
(* Sequence and collection helpers (Python built-ins).                     *)
(***************************************************************************)
Reversed(s) == [i \in 1..Len(s) |-> s[Len(s) + 1 - i]]

Range(s) == {s[i] : i \in 1..Len(s)}

MaxOf(S) == CHOOSE x \in S : \A y \in S : y <= x

RECURSIVE SumOver(_, _)
SumOver(f, S) ==
    IF S = {} THEN 0
    ELSE LET k == CHOOSE k \in S : TRUE IN f[k] + SumOver(f, S \ {k})

ascii_uppercase ==
    <<"A", "B", "C", "D", "E", "F", "G", "H", "I", "J", "K", "L", "M",
      "N", "O", "P", "Q", "R", "S", "T", "U", "V", "W", "X", "Y", "Z">>

(***************************************************************************)
(* generate_elevation_powerpoint: scale and position of one bay.           *)
(***************************************************************************)
max_bay_width_cm(bay) ==
    IF DOMAIN bay.shelf_details # {}
    THEN MaxOf({bay.shelf_details[k].num_bins * bay.shelf_details[k].w :
                   k \in DOMAIN bay.shelf_details})
    ELSE 1

\* Mutant: the fallback of an empty shelf_details is 0 instead of 1.
max_bay_height_cm_zero(bay) ==
    IF DOMAIN bay.shelf_details # {}
    THEN SumOver([k \in DOMAIN bay.shelf_details |-> bay.shelf_details[k].h],
                 DOMAIN bay.shelf_details)
    ELSE 0

max_bay_height_cm(bay) ==
    IF DOMAIN bay.shelf_details # {}
    THEN SumOver([k \in DOMAIN bay.shelf_details |-> bay.shelf_details[k].h],
                 DOMAIN bay.shelf_details)
    ELSE 1

scale_w(bay) ==
    IF max_bay_width_cm(bay) > 0
    THEN RDiv(R(drawing_area_width), R(max_bay_width_cm(bay)))
    ELSE R(0)

\* Mutant: the bay height itself is taken as scale_h, the division is lost.
scale_h_undivided(bay) ==
    IF max_bay_height_cm(bay) > 0
    THEN R(max_bay_height_cm(bay))
    ELSE R(0)

scale_h(bay) ==
    IF max_bay_height_cm(bay) > 0
    THEN RDiv(R(drawing_area_height), R(max_bay_height_cm(bay)))
    ELSE R(0)

Scale(bay) == RMul(RMin(scale_w(bay), scale_h(bay)), Rat(PaddingNum, PaddingDen))

total_drawing_width(bay) == RMul(R(max_bay_width_cm(bay)), Scale(bay))

start_x(bay) == RSub(R(SlideCentreX), RDiv(total_drawing_width(bay), R(2)))

(***************************************************************************)
(* The shapes python-pptx is asked to add.  An auto shape or text box is   *)
(* [kind, left, top, width, height, text]; a connector is                  *)
(* [kind, begin_x, begin_y, end_x, end_y].                                 *)
(***************************************************************************)
Box(kind, left, top, width, height, text) ==
    [kind |-> kind, left |-> left, top |-> top,
     width |-> width, height |-> height, text |-> text]

Line(kind, bx, by, ex, ey) ==
    [kind |-> kind, begin_x |-> bx, begin_y |-> by, end_x |-> ex, end_y |-> ey]

shelf_height(shelf_info, scale) == RMul(R(shelf_info.h), scale)

bin_width(shelf_info, scale) == RMul(R(shelf_info.w), scale)

shelf_width(shelf_info, scale) == RMul(R(shelf_info.num_bins), bin_width(shelf_info, scale))

ShadowShape(shelf_info, scale, sx, current_y) ==
    Box("shadow", RAdd(sx, R(ShadowOffset)),
        RAdd(RSub(current_y, shelf_height(shelf_info, scale)), R(ShadowOffset)),
        shelf_width(shelf_info, scale), shelf_height(shelf_info, scale), <<>>)

MainShape(shelf_info, scale, sx, current_y) ==
    Box("shelf", sx, RSub(current_y, shelf_height(shelf_info, scale)),
        shelf_width(shelf_info, scale), shelf_height(shelf_info, scale), <<>>)

\* Mutant: one divider per bin, range(1, num_bins + 1).
BinDividersPerBin(shelf_info, scale, sx, current_y) ==
    [j \in 1..shelf_info.num_bins |->
        LET line_x == RAdd(sx, RMul(R(j), bin_width(shelf_info, scale)))
        IN Line("divider", line_x, RSub(current_y, shelf_height(shelf_info, scale)),
                line_x, current_y)]

BinDividers(shelf_info, scale, sx, current_y) ==
    [j \in 1..(shelf_info.num_bins - 1) |->
        LET line_x == RAdd(sx, RMul(R(j), bin_width(shelf_info, scale)))
        IN Line("divider", line_x, RSub(current_y, shelf_height(shelf_info, scale)),
                line_x, current_y)]

ShelfLabel(shelf_name, shelf_info, scale, sx, current_y) ==
    Box("label", RSub(sx, R(LabelOffset)),
        RSub(current_y, shelf_height(shelf_info, scale)),
        R(LabelWidth), shelf_height(shelf_info, scale), <<shelf_name>>)

dim_x(shelf_info, scale, sx) == RAdd(RAdd(sx, shelf_width(shelf_info, scale)), R(DimOffset))

dim_y(shelf_info, scale, current_y) ==
    RSub(current_y, RDiv(shelf_height(shelf_info, scale), R(2)))

dim_text(shelf_info) == <<"H", shelf_info.h, "W", shelf_info.w, "D", shelf_info.d>>

DimensionAnnotation(shelf_info, scale, sx, current_y) ==
    << Box("annotation", dim_x(shelf_info, scale, sx),
           RSub(dim_y(shelf_info, scale, current_y), R(DimBoxRise)),
           R(DimBoxWidth), R(DimBoxHeight), dim_text(shelf_info)),
       Line("connector", dim_x(shelf_info, scale, sx), dim_y(shelf_info, scale, current_y),
            RAdd(sx, shelf_width(shelf_info, scale)), dim_y(shelf_info, scale, current_y)) >>

\* Mutant: the cursor advances by the shelf height only.
NextYNoGap(shelf_info, scale, current_y) ==
    RSub(current_y, shelf_height(shelf_info, scale))

NextY(shelf_info, scale, current_y) ==
    RSub(current_y, RAdd(shelf_height(shelf_info, scale), R(ShelfGap)))

\* One pass of the loop body for shelf_name, in the order the shapes are added.
ShelfShapes(shelf_name, shelf_info, scale, sx, current_y) ==
    << ShadowShape(shelf_info, scale, sx, current_y),
       MainShape(shelf_info, scale, sx, current_y) >>
    \o BinDividers(shelf_info, scale, sx, current_y)
    \o << ShelfLabel(shelf_name, shelf_info, scale, sx, current_y) >>
    \o DimensionAnnotation(shelf_info, scale, sx, current_y)

\* Mutant: the annotation and its connector are left out when the shelf drawn
\* before has the same spec.
RECURSIVE DrawShelvesAfter(_, _, _, _, _, _)
DrawShelvesAfter(prev_info, names, details, scale, sx, current_y) ==
    IF names = <<>> THEN <<>>
    ELSE LET shelf_info == details[Head(names)]
             all == ShelfShapes(Head(names), shelf_info, scale, sx, current_y)
         IN (IF prev_info = shelf_info
             THEN SelectSeq(all, LAMBDA s : s.kind \notin {"annotation", "connector"})
             ELSE all)
            \o DrawShelvesAfter(shelf_info, Tail(names), details, scale, sx,
                                RSub(current_y, RAdd(shelf_height(shelf_info, scale),
                                                     R(ShelfGap))))

DrawShelvesSuppressing(names, details, scale, sx, current_y) ==
    DrawShelvesAfter([num_bins |-> 0, h |-> 0, w |-> 0, d |-> 0],
                     names, details, scale, sx, current_y)

RECURSIVE DrawShelves(_, _, _, _, _)
DrawShelves(names, details, scale, sx, current_y) ==
    IF names = <<>> THEN <<>>
    ELSE LET shelf_info == details[Head(names)]
         IN ShelfShapes(Head(names), shelf_info, scale, sx, current_y)
            \o DrawShelves(Tail(names), details, scale, sx,
                           NextY(shelf_info, scale, current_y))

\* Mutant: the shelves are drawn in their stored order.
ShelfOrderStored(bay) == bay.shelves

ShelfOrder(bay) == Reversed(bay.shelves)

TitleShape(bay) == [kind |-> "title", text |-> bay.name]

\* The slide of one bay: the scale is the loop's local variable, kept for inspection.
Slide(bay) ==
    LET scale == Scale(bay)
    IN [bay |-> bay,
        scale |-> scale,
        shapes |-> <<TitleShape(bay)>>
                   \o DrawShelves(ShelfOrder(bay), bay.shelf_details,
                                  scale, start_x(bay), R(start_y))]

\* shelf_details[shelf_name] raises KeyError when the shelf has no entry.
RaisesKeyError(data) ==
    \E b \in 1..Len(data) :
        \E k \in 1..Len(data[b].shelves) :
            data[b].shelves[k] \notin DOMAIN data[b].shelf_details

NoCall == [status |-> "none", slides |-> <<>>]

generate_elevation_powerpoint(data) ==
    IF RaisesKeyError(data)
    THEN [status |-> "raised", slides |-> <<>>]
    ELSE [status |-> "returned", slides |-> [b \in 1..Len(data) |-> Slide(data[b])]]

(***************************************************************************)
(* draw_bay_preview: the Matplotlib artists of one bay, in centimetres,    *)
(* y growing upwards.                                                      *)
(***************************************************************************)
Patch(x, y, width, height) ==
    [kind |-> "patch", x |-> x, y |-> y, width |-> width, height |-> height]

PlotLine(x, y1, y2) == [kind |-> "plot", x |-> x, y1 |-> y1, y2 |-> y2]

Text(x, y, text) == [kind |-> "text", x |-> x, y |-> y, text |-> text]

\* current_y is a whole number of centimetres, as every bin height is.
PreviewShelf(shelf_name, shelf_info, current_y) ==
    << Patch(R(0), R(current_y), R(shelf_info.num_bins * shelf_info.w), R(shelf_info.h)) >>
    \o [j \in 1..(shelf_info.num_bins - 1) |->
          PlotLine(R(j * shelf_info.w), R(current_y), R(current_y + shelf_info.h))]
    \o << Text(R(-5), Rat(2 * current_y + shelf_info.h, 2), <<shelf_name>>) >>

RECURSIVE PreviewShelves(_, _, _)
PreviewShelves(names, details, current_y) ==
    IF names = <<>> THEN <<>>
    ELSE LET shelf_info == details[Head(names)]
         IN PreviewShelf(Head(names), shelf_info, current_y)
            \o PreviewShelves(Tail(names), details, current_y + shelf_info.h)

PreviewOrder(bay) == bay.shelves

draw_bay_preview(bay) ==
    IF bay.shelves = <<>>
    THEN [drawn |-> FALSE, artists |-> <<>>]
    ELSE [drawn |-> TRUE,
          artists |-> PreviewShelves(PreviewOrder(bay), bay.shelf_details, 0)]

(***************************************************************************)
(* The Streamlit script: one run of the form loop and of the button block. *)
(***************************************************************************)
IsSpace(c) == c = " "

RECURSIVE lstrip(_)
lstrip(s) == IF s # <<>> /\ IsSpace(Head(s)) THEN lstrip(Tail(s)) ELSE s

strip(s) == Reversed(lstrip(Reversed(lstrip(s))))

DefaultName(i) == <<"B", "a", "y", " ", "T", "y", "p", "e", " ", ToString(i + 1)>>

shelf_names(count) == SubSeq(ascii_uppercase, 1, count)

DefaultShelf ==
    [num_bins |-> DefaultNumBins, h |-> DefaultDimension,
     w |-> DefaultDimension, d |-> DefaultDimension]

DefaultConfig == [k \in Range(shelf_names(DefaultShelfCount)) |-> DefaultShelf]

\* The record the form builds for bay i (also the one handed to the preview).
BayRecord(names, counts, cfg, i) ==
    [name |-> strip(names[i]),
     shelves |-> shelf_names(counts[i]),
     shelf_details |-> [k \in Range(shelf_names(counts[i])) |-> cfg[i][k]]]

\* Mutant: the bay is appended whatever its name.
AppendedAlways(bay_name) == TRUE

\* if bay_name.strip(): bay_types_data.append(...)
Appended(bay_name) == strip(bay_name) # <<>>

RECURSIVE FormLoop(_, _, _, _, _)
FormLoop(nbt, names, counts, cfg, i) ==
    IF i >= nbt THEN <<>>
    ELSE (IF Appended(names[i]) THEN <<BayRecord(names, counts, cfg, i)>> ELSE <<>>)
         \o FormLoop(nbt, names, counts, cfg, i + 1)

Previews(nbt, names, counts, cfg) ==
    [b \in 1..nbt |-> draw_bay_preview(BayRecord(names, counts, cfg, b - 1))]

\* any(not bay['name'] for bay in bay_types_data)
NameMissing(data) == \E b \in 1..Len(data) : data[b].name = <<>>

NoMessage == [kind |-> "none", slides |-> 0]

ButtonBlock(clicked, data) ==
    IF ~clicked
    THEN [message |-> NoMessage, ppt |-> NoCall, download |-> FALSE]
    ELSE IF NameMissing(data)
    THEN [message |-> [kind |-> "name_error", slides |-> 0],
          ppt |-> NoCall, download |-> FALSE]
    ELSE LET ppt_buffer == generate_elevation_powerpoint(data)
         IN IF ppt_buffer.status = "returned"
            THEN [message |-> [kind |-> "success", slides |-> Len(data)],
                  ppt |-> ppt_buffer, download |-> TRUE]
            ELSE [message |-> [kind |-> "generation_error", slides |-> 0],
                  ppt |-> ppt_buffer, download |-> FALSE]

\* One run of the script with the widgets holding nbt, names, counts and cfg.
RunScript(nbt, names, counts, cfg, clicked) ==
    LET data == FormLoop(nbt, names, counts, cfg, 0)
        block == ButtonBlock(clicked, data)
    IN /\ num_bay_types' = nbt
       /\ bay_type_name' = names
       /\ shelf_count' = counts
       /\ shelf_config' = cfg
       /\ bay_types_data' = data
       /\ previews' = Previews(nbt, names, counts, cfg)
       /\ message' = block.message
       /\ ppt' = block.ppt
       /\ download' = block.download
       /\ reruns' = reruns + 1

(***************************************************************************)
(* What the user can enter.                                                *)
(***************************************************************************)
NameInputs == {<<>>, <<" ">>, <<"x">>, <<" ", "x", " ">>}

NumBinsInputs == {MinNumBins, DefaultNumBins}

HeightInputs == {MinDimension, DefaultDimension}

WidthInputs == {MinDimension, DefaultDimension}

DepthInputs == {MinDimension, DefaultDimension}

Bays == 0..(num_bay_types - 1)

Init ==
    /\ num_bay_types = DefaultBayTypes
    /\ bay_type_name = [i \in 0..(DefaultBayTypes - 1) |-> DefaultName(i)]
    /\ shelf_count = [i \in 0..(DefaultBayTypes - 1) |-> DefaultShelfCount]
    /\ shelf_config = [i \in 0..(DefaultBayTypes - 1) |-> DefaultConfig]
    /\ bay_types_data =
          FormLoop(DefaultBayTypes, [i \in 0..(DefaultBayTypes - 1) |-> DefaultName(i)],
                   [i \in 0..(DefaultBayTypes - 1) |-> DefaultShelfCount],
                   [i \in 0..(DefaultBayTypes - 1) |-> DefaultConfig], 0)
    /\ previews =
          Previews(DefaultBayTypes, [i \in 0..(DefaultBayTypes - 1) |-> DefaultName(i)],
                   [i \in 0..(DefaultBayTypes - 1) |-> DefaultShelfCount],
                   [i \in 0..(DefaultBayTypes - 1) |-> DefaultConfig])
    /\ message = NoMessage
    /\ ppt = NoCall
    /\ download = FALSE
    /\ reruns = 0

\* Streamlit keeps the value of a widget only while the widget is rendered: a
\* bay or shelf that comes back after being hidden starts from its value=
\* defaults, whereas st.session_state["bay_type_name_<i>"] is kept.
SetNumBayTypes(n) ==
    /\ reruns < MaxReruns
    /\ n # num_bay_types
    /\ RunScript(n,
                 [i \in DOMAIN bay_type_name \cup 0..(n - 1) |->
                     IF i \in DOMAIN bay_type_name THEN bay_type_name[i] ELSE DefaultName(i)],
                 [i \in 0..(n - 1) |->
                     IF i \in DOMAIN shelf_count THEN shelf_count[i] ELSE DefaultShelfCount],
                 [i \in 0..(n - 1) |->
                     IF i \in DOMAIN shelf_config THEN shelf_config[i] ELSE DefaultConfig],
                 FALSE)

EditBayName(i, s) ==
    /\ reruns < MaxReruns
    /\ s # bay_type_name[i]
    /\ RunScript(num_bay_types, [bay_type_name EXCEPT ![i] = s],
                 shelf_count, shelf_config, FALSE)

SetShelfCount(i, n) ==
    /\ reruns < MaxReruns
    /\ n # shelf_count[i]
    /\ RunScript(num_bay_types, bay_type_name, [shelf_count EXCEPT ![i] = n],
                 [shelf_config EXCEPT ![i] =
                     [k \in Range(shelf_names(n)) |->
                         IF k \in DOMAIN shelf_config[i] THEN shelf_config[i][k]
                         ELSE DefaultShelf]],
                 FALSE)

SetNumBins(i, k, v) ==
    /\ reruns < MaxReruns
    /\ v # shelf_config[i][k].num_bins
    /\ RunScript(num_bay_types, bay_type_name, shelf_count,
                 [shelf_config EXCEPT ![i][k].num_bins = v], FALSE)

SetBinHeight(i, k, v) ==
    /\ reruns < MaxReruns
    /\ v # shelf_config[i][k].h
    /\ RunScript(num_bay_types, bay_type_name, shelf_count,
                 [shelf_config EXCEPT ![i][k].h = v], FALSE)

SetBinWidth(i, k, v) ==
    /\ reruns < MaxReruns
    /\ v # shelf_config[i][k].w
    /\ RunScript(num_bay_types, bay_type_name, shelf_count,
                 [shelf_config EXCEPT ![i][k].w = v], FALSE)

SetBinDepth(i, k, v) ==
    /\ reruns < MaxReruns
    /\ v # shelf_config[i][k].d
    /\ RunScript(num_bay_types, bay_type_name, shelf_count,
                 [shelf_config EXCEPT ![i][k].d = v], FALSE)

ClickGenerate ==
    /\ reruns < MaxReruns
    /\ RunScript(num_bay_types, bay_type_name, shelf_count, shelf_config, TRUE)

Next ==
    \/ \E n \in MinBayTypes..MaxBays : SetNumBayTypes(n)
    \/ \E i \in Bays : \E s \in NameInputs : EditBayName(i, s)
    \/ \E i \in Bays : \E n \in MinShelfCount..MaxShelves : SetShelfCount(i, n)
    \/ \E i \in Bays : \E k \in DOMAIN shelf_config[i] :
          \/ \E v \in NumBinsInputs : SetNumBins(i, k, v)
          \/ \E v \in HeightInputs : SetBinHeight(i, k, v)
          \/ \E v \in WidthInputs : SetBinWidth(i, k, v)
          \/ \E v \in DepthInputs : SetBinDepth(i, k, v)
    \/ ClickGenerate

Spec == Init /\ [][Next]_vars

(***************************************************************************)
(* generate_elevation_powerpoint called directly on a list of bay records. *)
(***************************************************************************)
ShelfSpecs == [num_bins : NumBinsInputs, h : HeightInputs, w : WidthInputs, d : DepthInputs]

BayOf(shelves, details) == [name |-> <<"x">>, shelves |-> shelves, shelf_details |-> details]

\* Bays of n shelves as the form builds them, with every combination of the inputs.
GenBays(n) ==
    { BayOf(shelf_names(n), details) :
        details \in [Range(shelf_names(n)) -> ShelfSpecs] }

\* Bays of n shelves as the form builds them, all shelves of one shelf spec.
TallBays(n) ==
    { BayOf(shelf_names(n), [k \in Range(shelf_names(n)) |-> spec]) : spec \in ShelfSpecs }

\* A bay of n shelves without shelf_details, which the form never builds.
DegenerateBay(n) == BayOf(shelf_names(n), <<>>)

EnlargeBy == {1, 40}

\* The bays that are bay except that one shelf has a larger num_bins, h or w
\* (taken of the bays of default depth: d plays no part in the scale).
Enlargements(bay) ==
    UNION { { [bay EXCEPT !.shelf_details[k].num_bins = @ + by],
              [bay EXCEPT !.shelf_details[k].h = @ + by],
              [bay EXCEPT !.shelf_details[k].w = @ + by] } :
            k \in DOMAIN bay.shelf_details, by \in EnlargeBy }

InitGen ==
    /\ num_bay_types = DefaultBayTypes
    /\ bay_type_name = [i \in 0..(DefaultBayTypes - 1) |-> DefaultName(i)]
    /\ shelf_count = [i \in 0..(DefaultBayTypes - 1) |-> DefaultShelfCount]
    /\ shelf_config = [i \in 0..(DefaultBayTypes - 1) |-> DefaultConfig]
    /\ \/ \E n \in MinShelfCount..GenShelves : \E bay \in GenBays(n) :
            \/ bay_types_data = <<bay>>
            \/ /\ \A k \in DOMAIN bay.shelf_details :
                     bay.shelf_details[k].d = DefaultDimension
               /\ \E larger \in Enlargements(bay) : bay_types_data = <<bay, larger>>
       \/ \E n \in (GenShelves + 1)..TallShelves : \E bay \in TallBays(n) :
            bay_types_data = <<bay>>
       \/ \E n \in 0..GenShelves : bay_types_data = <<DegenerateBay(n)>>
    /\ previews = <<>>
    /\ message = NoMessage
    /\ ppt = NoCall
    /\ download = FALSE
    /\ reruns = 0

CallGenerate ==
    /\ ppt.status = "none"
    /\ ppt' = generate_elevation_powerpoint(bay_types_data)
    /\ UNCHANGED <<num_bay_types, bay_type_name, shelf_count, shelf_config,
                   bay_types_data, previews, message, download, reruns>>

NextGen == CallGenerate

SpecGen == InitGen /\ [][NextGen]_vars

(***************************************************************************)
(* Reading a slide back.                                                   *)
(***************************************************************************)
OfKind(shapes, kind) == SelectSeq(shapes, LAMBDA s : s.kind = kind)

ShelfRects(slide) == OfKind(slide.shapes, "shelf")

Labels(slide) == OfKind(slide.shapes, "label")

Annotations(slide) == OfKind(slide.shapes, "annotation")

Dividers(slide) == OfKind(slide.shapes, "divider")

Bottom(rect) == RAdd(rect.top, rect.height)

Returned == ppt.status = "returned"

SlideIds == 1..Len(ppt.slides)

\* The spec of the k-th shelf drawn on the slide.
DrawnSpec(slide, k) == slide.bay.shelf_details[Reversed(slide.bay.shelves)[k]]

\* The annotation text box python-pptx places beside the shelf rectangle rect.
AnnotationsOf(slide, rect) ==
    { i \in 1..Len(Annotations(slide)) :
        Annotations(slide)[i].top
            = RSub(RAdd(rect.top, RDiv(rect.height, R(2))), R(DimBoxRise)) }

\* A bay as section 4.4 of the specification requires it.
ValidBay(bay) ==
    /\ bay.shelves # <<>>
    /\ DOMAIN bay.shelf_details = Range(bay.shelves)
    /\ \A k \in DOMAIN bay.shelf_details :
          /\ bay.shelf_details[k].num_bins >= 1
          /\ bay.shelf_details[k].h >= 1
          /\ bay.shelf_details[k].w >= 1
          /\ bay.shelf_details[k].d >= 1

C3_VerticalStacking ==
    Returned =>
        \A b \in SlideIds :
            ValidBay(ppt.slides[b].bay) =>
                /\ Len(ShelfRects(ppt.slides[b])) = Len(ppt.slides[b].bay.shelves)
                /\ Bottom(ShelfRects(ppt.slides[b])[1]) = R(start_y)
                /\ \A k \in 2..Len(ShelfRects(ppt.slides[b])) :
                      Bottom(ShelfRects(ppt.slides[b])[k])
                          = RSub(ShelfRects(ppt.slides[b])[k - 1].top, R(ShelfGap))

\* Two shelves of differing heights were drawn one above the other.
C3_Witness ==
    /\ Returned
    /\ \E b \in SlideIds :
          /\ ValidBay(ppt.slides[b].bay)
          /\ Len(ShelfRects(ppt.slides[b])) >= 2
          /\ ShelfRects(ppt.slides[b])[1].height # ShelfRects(ppt.slides[b])[2].height
          /\ Bottom(ShelfRects(ppt.slides[b])[2]) # ShelfRects(ppt.slides[b])[1].top

(***************************************************************************)
(* C4: primitive counts.                                                   *)
(***************************************************************************)
SumNumBins(bay) ==
    SumOver([k \in DOMAIN bay.shelf_details |-> bay.shelf_details[k].num_bins],
            DOMAIN bay.shelf_details)

\* C4 as claimed: a bay of N shelves yields exactly N container rectangles
\* and exactly sum(num_bins) bin-level primitives (divider lines).
C4_PrimitiveCounts ==
    Returned =>
        \A b \in SlideIds :
            ValidBay(ppt.slides[b].bay) =>
                /\ Len(ShelfRects(ppt.slides[b])) = Len(ppt.slides[b].bay.shelves)
                /\ Len(Dividers(ppt.slides[b])) = SumNumBins(ppt.slides[b].bay)

\* C4 as amended: a bay of N shelves yields exactly N main shelf rectangles
\* (each with one shadow rectangle behind it) and exactly
\* sum(num_bins - 1) = sum(num_bins) - N divider lines.
C4_DividerCounts ==
    Returned =>
        \A b \in SlideIds :
            ValidBay(ppt.slides[b].bay) =>
                /\ Len(ShelfRects(ppt.slides[b])) = Len(ppt.slides[b].bay.shelves)
                /\ Len(OfKind(ppt.slides[b].shapes, "shadow")) = Len(ppt.slides[b].bay.shelves)
                /\ Len(Dividers(ppt.slides[b]))
                      = SumNumBins(ppt.slides[b].bay) - Len(ppt.slides[b].bay.shelves)

\* A bay of two shelves, one of a single bin and one of several, was drawn.
C4_Witness ==
    /\ Returned
    /\ \E b \in SlideIds :
          /\ ValidBay(ppt.slides[b].bay)
          /\ Len(ppt.slides[b].bay.shelves) = 2
          /\ ppt.slides[b].bay.shelf_details["A"].num_bins = 1
          /\ ppt.slides[b].bay.shelf_details["B"].num_bins > 1
          /\ Len(Dividers(ppt.slides[b])) > 0

(***************************************************************************)
(* C10: traversal order.                                                   *)
(***************************************************************************)
\* Position, among the shapes of the slide, of the label of the shelf named name.
LabelPos(slide, name) ==
    CHOOSE p \in 1..Len(slide.shapes) :
        slide.shapes[p].kind = "label" /\ slide.shapes[p].text = <<name>>

\* The main rectangle of the shelf named name: the last one added before its label.
RectOf(slide, name) ==
    slide.shapes[CHOOSE p \in 1..LabelPos(slide, name) :
                    /\ slide.shapes[p].kind = "shelf"
                    /\ \A q \in (p + 1)..LabelPos(slide, name) :
                          slide.shapes[q].kind # "shelf"]

\* C10: shelves are drawn in reverse of their stored order: the last element
\* of bay['shelves'] is drawn first, with its bottom edge at start_y, and for
\* stored indices i < j shelf i is drawn after shelf j and lies strictly
\* above it on the slide (its bottom edge has a smaller y than j's top edge).
C10_TraversalOrder ==
    Returned =>
        \A b \in SlideIds :
            ValidBay(ppt.slides[b].bay) =>
                LET slide == ppt.slides[b]
                    shelves == slide.bay.shelves
                IN /\ Len(Labels(slide)) = Len(shelves)
                   /\ Labels(slide)[1].text = <<shelves[Len(shelves)]>>
                   /\ Bottom(RectOf(slide, shelves[Len(shelves)])) = R(start_y)
                   /\ \A i \in 1..Len(shelves) : \A j \in (i + 1)..Len(shelves) :
                         /\ LabelPos(slide, shelves[i]) > LabelPos(slide, shelves[j])
                         /\ Bottom(RectOf(slide, shelves[i])).n * RectOf(slide, shelves[j]).top.d
                              < RectOf(slide, shelves[j]).top.n * Bottom(RectOf(slide, shelves[i])).d

\* A bay of two shelves of different specs was drawn, shelf B first.
C10_Witness ==
    /\ Returned
    /\ \E b \in SlideIds :
          /\ ValidBay(ppt.slides[b].bay)
          /\ ppt.slides[b].bay.shelves = <<"A", "B">>
          /\ ppt.slides[b].bay.shelf_details["A"] # ppt.slides[b].bay.shelf_details["B"]
          /\ LabelPos(ppt.slides[b], "B") < LabelPos(ppt.slides[b], "A")

(***************************************************************************)
(* C8: scale monotonicity.                                                 *)
(***************************************************************************)
\* larger is bay except that one shelf has a larger h, w or num_bins.
IsEnlargement(bay, larger) ==
    /\ ValidBay(bay)
    /\ larger.name = bay.name
    /\ larger.shelves = bay.shelves
    /\ DOMAIN larger.shelf_details = DOMAIN bay.shelf_details
    /\ \E k \in DOMAIN bay.shelf_details :
          /\ \A o \in DOMAIN bay.shelf_details \ {k} :
                larger.shelf_details[o] = bay.shelf_details[o]
          /\ larger.shelf_details[k].d = bay.shelf_details[k].d
          /\ larger.shelf_details[k].h >= bay.shelf_details[k].h
          /\ larger.shelf_details[k].w >= bay.shelf_details[k].w
          /\ larger.shelf_details[k].num_bins >= bay.shelf_details[k].num_bins
          /\ larger.shelf_details[k] # bay.shelf_details[k]

\* C8: when one call draws two bays that are identical except that one shelf
\* has a larger h, w or num_bins in the second, the scale computed for the
\* second is less than or equal to the scale computed for the first.
C8_ScaleMonotone ==
    Returned =>
        \A a \in SlideIds : \A b \in SlideIds :
            IsEnlargement(ppt.slides[a].bay, ppt.slides[b].bay) =>
                RLeq(ppt.slides[b].scale, ppt.slides[a].scale)

\* A bay and an enlargement of it were drawn, the second at a strictly smaller scale.
C8_Witness ==
    /\ Returned
    /\ \E a \in SlideIds : \E b \in SlideIds :
          /\ IsEnlargement(ppt.slides[a].bay, ppt.slides[b].bay)
          /\ ~RLeq(ppt.slides[a].scale, ppt.slides[b].scale)

(***************************************************************************)
(* C7: a bay without shelf_details.                                        *)
(***************************************************************************)
Called == ppt.status # "none"

Degenerate(bay) == DOMAIN bay.shelf_details = {}

C2_FitsDrawingArea ==
    Returned =>
        \A b \in SlideIds :
            ValidBay(ppt.slides[b].bay) =>
                \A k \in 1..Len(ShelfRects(ppt.slides[b])) :
                    /\ RLeq(ShelfRects(ppt.slides[b])[k].width, R(drawing_area_width))
                    /\ RLeq(RSub(R(start_y), ShelfRects(ppt.slides[b])[k].top),
                            R(drawing_area_height))
                    /\ RLeq(R(0), ShelfRects(ppt.slides[b])[k].top)

(***************************************************************************)
(* C5: all-or-nothing validation.                                          *)
(***************************************************************************)
Clicked == message.kind # "none"

\* A bay type of the form whose name is empty or whitespace only.
InvalidBayInForm == \E i \in Bays : strip(bay_type_name[i]) = <<>>

\* C5: after a press of the button, if any bay type of the form has an empty
\* or whitespace-only name, a validation error is shown and no document is
\* produced or offered; a document is produced only when all num_bay_types
\* bays are valid, and then it has one slide for each of them.
C5_AllOrNothing ==
    Clicked =>
        IF InvalidBayInForm
        THEN message.kind = "name_error" /\ ~Returned /\ ~download
        ELSE Returned => Len(ppt.slides) = num_bay_types

(***************************************************************************)
(* C6: the slide and the preview of a bay.                                 *)
(***************************************************************************)
Patches(figure) == OfKind(figure.artists, "patch")

Texts(figure) == OfKind(figure.artists, "text")

RTimes(a, b) == [n |-> a.n * b.n, d |-> a.d * b.d]

\* x of the slide over u of the preview is the same ratio as y over v.
SameRatio(x, u, y, v) == RTimes(x, v).n * RTimes(y, u).d = RTimes(y, u).n * RTimes(x, v).d

\* The slide is the preview scaled by one common factor, shelf by shelf from the bottom.
Similar(slide, figure) ==
    /\ Len(ShelfRects(slide)) = Len(Patches(figure))
    /\ \A k \in 1..Len(ShelfRects(slide)) :
          /\ Labels(slide)[k].text = Texts(figure)[k].text
          /\ SameRatio(ShelfRects(slide)[k].width, Patches(figure)[k].width,
                       ShelfRects(slide)[1].width, Patches(figure)[1].width)
          /\ SameRatio(ShelfRects(slide)[k].height, Patches(figure)[k].height,
                       ShelfRects(slide)[1].width, Patches(figure)[1].width)
          /\ SameRatio(RSub(R(start_y), Bottom(ShelfRects(slide)[k])), Patches(figure)[k].y,
                       ShelfRects(slide)[1].width, Patches(figure)[1].width)

\* C6: for every bay of the form that got a slide, the slide and the preview
\* are geometrically similar: the k-th shelf from the bottom is the same
\* shelf in both, and every shelf rectangle's width, height and offset from
\* the bottom of the drawing on the slide are the preview's values times one
\* common factor.
C6_SinkConsistency ==
    Returned =>
        \A b \in SlideIds : \A i \in Bays :
            (Appended(bay_type_name[i])
             /\ ppt.slides[b].bay = BayRecord(bay_type_name, shelf_count, shelf_config, i)) =>
                /\ previews[i + 1].drawn
                /\ Similar(ppt.slides[b], previews[i + 1])

(***************************************************************************)
(* C9: what the form hands to the generator.                               *)
(***************************************************************************)
\* C9: after any sequence of form edits and reruns, every record of
\* bay_types_data has a non-empty trimmed name, a non-empty shelves sequence
\* A, B, C, ..., a shelf_details entry for exactly each name in shelves, and
\* num_bins >= 1 and h, w, d > 0 in every entry; so the shelf_details lookup
\* never fails and the scale denominators are positive.
C9_BayModelPreconditions ==
    \A b \in 1..Len(bay_types_data) :
        /\ bay_types_data[b].name # <<>>
        /\ ~IsSpace(Head(bay_types_data[b].name))
        /\ ~IsSpace(bay_types_data[b].name[Len(bay_types_data[b].name)])
        /\ bay_types_data[b].shelves # <<>>
        /\ \A k \in 1..Len(bay_types_data[b].shelves) :
              bay_types_data[b].shelves[k] = ascii_uppercase[k]
        /\ DOMAIN bay_types_data[b].shelf_details = Range(bay_types_data[b].shelves)
        /\ \A k \in DOMAIN bay_types_data[b].shelf_details :
              /\ bay_types_data[b].shelf_details[k].num_bins >= 1
              /\ bay_types_data[b].shelf_details[k].h > 0
              /\ bay_types_data[b].shelf_details[k].w > 0
              /\ bay_types_data[b].shelf_details[k].d > 0
        /\ ~RaisesKeyError(bay_types_data)
        /\ max_bay_width_cm(bay_types_data[b]) > 0
        /\ max_bay_height_cm(bay_types_data[b]) > 0

\* With one bay type of the form left blank-named, the form handed the
\* other one to the generator, which returned.
C9_Witness ==
    /\ Returned
    /\ InvalidBayInForm
    /\ Len(bay_types_data) >= 1

====
